---- MODULE Spec2Model ----
(***************************************************************************)
(* GravitySimulator3D: the OrbitalSystem / OrbitalBody dynamics core.      *)
(*                                                                         *)
(* GLfloat values are modelled as binary floating-point numbers with a     *)
(* PrecBits-bit significand and an unbounded exponent, rounded to nearest  *)
(* (ties to even) after every operation, with the IEEE special values      *)
(* +Inf, -Inf and NaN produced by a division by zero.                      *)
(***************************************************************************)
EXTENDS Integers, Sequences, FiniteSets, TLC

\* ------------------------------------------------------------------------
\* Bounds of the model.
\* ------------------------------------------------------------------------

\* Bits of significand kept by a modelled GLfloat.
PrecBits == 8

\* Objects (the celestial sphere and the bodies) ever allocated in one run.
MaxObjects == 4

\* Bodies in one loaded system description.
MaxLoaded == 2

\* Operations the host performs on one system after its construction.
MaxOps == 2

\* ------------------------------------------------------------------------
\* GLfloat arithmetic.  A finite value is m * 2^e with m = 0 (and e = 0) or
\* 2^(PrecBits-1) <= |m| < 2^PrecBits, so every value has one representation.
\* The arithmetic is written as functions, whose arguments are values.
\* ------------------------------------------------------------------------

Abs(n) == IF n < 0 THEN -n ELSE n

Sgn(n) == IF n < 0 THEN -1 ELSE IF n = 0 THEN 0 ELSE 1

Pow2(n) == IF n <= 0 THEN 1 ELSE 2 ^ n

\* The least and the first excluded magnitude of a significand.
MLo == Pow2(PrecBits - 1)

MHi == Pow2(PrecBits)

GLfloat == [k : {"fin", "inf", "nan"}, m : Int, e : Int]

Fin(m, e) == [k |-> "fin", m |-> m, e |-> e]

Zero == Fin(0, 0)

PInf == [k |-> "inf", m |-> 1, e |-> 0]

NInf == [k |-> "inf", m |-> -1, e |-> 0]

NaN == [k |-> "nan", m |-> 0, e |-> 0]

Inf(s) == IF s < 0 THEN NInf ELSE PInf

\* Let(e, F): F applied to the value of e.
Let(e, F(_)) == CHOOSE u \in { F(v) : v \in {e} } : TRUE

\* The number of bits of n (1 <= n < 2^30).
BitLen(n) == CHOOSE b \in 1..30 : Pow2(b - 1) <= n /\ n < Pow2(b)

\* s * (n/d) * 2^e rounded to nearest, ties to even, given that
\* 2^(PrecBits-1) <= n/d < 2^PrecBits.
RoundQ[s \in Int, n \in Int, d \in Int, e \in Int] ==
  LET q  == n \div d
      r  == n % d
      up == (2 * r > d) \/ (2 * r = d /\ q % 2 = 1)
  IN IF ~up THEN Fin(s * q, e)
     ELSE IF q + 1 = MHi THEN Fin(s * MLo, e + 1)
     ELSE Fin(s * (q + 1), e)

\* s * (n/d) * 2^e rounded, given that n/d * 2^(-sh) lies in
\* [2^(PrecBits-1), 2^(PrecBits+1)).
RoundAt[s \in Int, n \in Int, d \in Int, e \in Int, sh \in Int] ==
  LET n1 == IF sh < 0 THEN n * Pow2(-sh) ELSE n
      d1 == IF sh > 0 THEN d * Pow2(sh) ELSE d
  IN IF n1 < d1 * MHi THEN RoundQ[s, n1, d1, e + sh]
     ELSE RoundQ[s, n1, 2 * d1, e + sh + 1]

\* The GLfloat nearest to s * (n/d) * 2^e (n >= 0, d > 0).
RoundRat(s, n, d, e) ==
  IF n = 0 \/ s = 0 THEN Zero
  ELSE RoundAt[s, n, d, e, BitLen(n) - BitLen(d) - PrecBits]

\* A literal: the integer n, and the fraction n/d.
FromInt(n) == RoundRat(Sgn(n), Abs(n), 1, 0)

FromRat(n, d) == RoundRat(Sgn(n), Abs(n), d, 0)

FNegFn[x \in GLfloat] ==
  IF x.k = "nan" THEN NaN
  ELSE IF x.k = "inf" THEN Inf(-x.m)
  ELSE Fin(-x.m, x.e)

FNeg(x) == FNegFn[x]

\* hi + lo for finite nonzero values with hi.e >= lo.e; lo is absorbed when
\* it lies below a quarter of the last place of hi.
FinAdd[hi \in GLfloat, lo \in GLfloat] ==
  IF hi.e - lo.e > PrecBits + 1 THEN hi
  ELSE Let(hi.m * Pow2(hi.e - lo.e) + lo.m,
           LAMBDA sum : RoundRat(Sgn(sum), Abs(sum), 1, lo.e))

FAddFn[x \in GLfloat, y \in GLfloat] ==
  IF x.k = "nan" \/ y.k = "nan" THEN NaN
  ELSE IF x.k = "inf" /\ y.k = "inf" THEN (IF x.m = y.m THEN x ELSE NaN)
  ELSE IF x.k = "inf" THEN x
  ELSE IF y.k = "inf" THEN y
  ELSE IF x.m = 0 THEN y
  ELSE IF y.m = 0 THEN x
  ELSE IF x.e >= y.e THEN FinAdd[x, y]
  ELSE FinAdd[y, x]

FAdd(x, y) == FAddFn[x, y]

FSub(x, y) == FAddFn[x, FNegFn[y]]

\* The product p of two significands lies in [2^(2*PrecBits-2), 2^(2*PrecBits)).
FinMul[s \in Int, p \in Int, e \in Int] ==
  IF p >= MLo * MHi THEN RoundQ[s, p, MHi, e + PrecBits]
  ELSE RoundQ[s, p, MLo, e + PrecBits - 1]

FMulFn[x \in GLfloat, y \in GLfloat] ==
  IF x.k = "nan" \/ y.k = "nan" THEN NaN
  ELSE IF x.k = "inf" \/ y.k = "inf"
       THEN (IF x.m = 0 \/ y.m = 0 THEN NaN ELSE Inf(Sgn(x.m) * Sgn(y.m)))
  ELSE IF x.m = 0 \/ y.m = 0 THEN Zero
  ELSE FinMul[Sgn(x.m) * Sgn(y.m), Abs(x.m) * Abs(y.m), x.e + y.e]

FMul(x, y) == FMulFn[x, y]

\* The quotient n/d of two significands lies in (1/2, 2).
FinDiv[s \in Int, n \in Int, d \in Int, e \in Int] ==
  IF n >= d THEN RoundQ[s, n * MLo, d, e - (PrecBits - 1)]
  ELSE RoundQ[s, n * MHi, d, e - PrecBits]

FDivFn[x \in GLfloat, y \in GLfloat] ==
  IF x.k = "nan" \/ y.k = "nan" THEN NaN
  ELSE IF x.k = "inf" THEN (IF y.k = "inf" THEN NaN
                            ELSE Inf(x.m * (IF y.m < 0 THEN -1 ELSE 1)))
  ELSE IF y.k = "inf" THEN Zero
  ELSE IF y.m = 0 THEN (IF x.m = 0 THEN NaN ELSE Inf(Sgn(x.m)))
  ELSE IF x.m = 0 THEN Zero
  ELSE FinDiv[Sgn(x.m) * Sgn(y.m), Abs(x.m), Abs(y.m), x.e - y.e]

FDiv(x, y) == FDivFn[x, y]

\* The integer square root of n, found bit by bit from 2^b downwards.
ISqrtBits[n \in Int, b \in Int, acc \in Int] ==
  IF b < 0 THEN acc
  ELSE IF (acc + Pow2(b)) * (acc + Pow2(b)) <= n
       THEN ISqrtBits[n, b - 1, acc + Pow2(b)]
       ELSE ISqrtBits[n, b - 1, acc]

\* The root of big * 2^e, where e is even and big lies in
\* [2^(2*PrecBits), 2^(2*PrecBits+2)): its integer root s has PrecBits+1
\* bits, and a sticky bit records an inexact root.
FinSqrt[big \in Int, e \in Int, s \in Int] ==
  RoundQ[1, 2 * s + (IF s * s = big THEN 0 ELSE 1), 4, (e \div 2) + 1]

FSqrtFn[x \in GLfloat] ==
  IF x.k = "nan" THEN NaN
  ELSE IF x.k = "inf" THEN (IF x.m > 0 THEN PInf ELSE NaN)
  ELSE IF x.m = 0 THEN Zero
  ELSE IF x.m < 0 THEN NaN
  ELSE Let(IF (x.e - (PrecBits + 1)) % 2 = 0 THEN PrecBits + 1 ELSE PrecBits + 2,
           LAMBDA a : FinSqrt[x.m * Pow2(a), x.e - a,
                              ISqrtBits[x.m * Pow2(a), PrecBits, 0]])

FSqrt(x) == FSqrtFn[x]

\* -1, 0 or 1 as x is below, equal to or above y (both finite).
FinCmp[x \in GLfloat, y \in GLfloat] ==
  IF Sgn(x.m) # Sgn(y.m) THEN Sgn(Sgn(x.m) - Sgn(y.m))
  ELSE IF x.m = 0 THEN 0
  ELSE IF x.e # y.e THEN Sgn(x.m) * Sgn(x.e - y.e)
  ELSE Sgn(x.m - y.m)

\* x < y, false when either is NaN.
FLessFn[x \in GLfloat, y \in GLfloat] ==
  IF x.k = "nan" \/ y.k = "nan" THEN FALSE
  ELSE IF x.k = "inf" THEN x.m < 0 /\ ~(y.k = "inf" /\ y.m < 0)
  ELSE IF y.k = "inf" THEN y.m > 0
  ELSE FinCmp[x, y] < 0

FLess(x, y) == FLessFn[x, y]

\* ------------------------------------------------------------------------
\* glm::vec3 arithmetic (component-wise, as glm computes it).
\* ------------------------------------------------------------------------

GLvec3 == GLfloat \X GLfloat \X GLfloat

VZero == <<Zero, Zero, Zero>>

VAddFn[a \in GLvec3, b \in GLvec3] ==
  <<FAddFn[a[1], b[1]], FAddFn[a[2], b[2]], FAddFn[a[3], b[3]]>>

VAdd(a, b) == VAddFn[a, b]

VSubFn[a \in GLvec3, b \in GLvec3] ==
  <<FAddFn[a[1], FNegFn[b[1]]], FAddFn[a[2], FNegFn[b[2]]],
    FAddFn[a[3], FNegFn[b[3]]]>>

VSub(a, b) == VSubFn[a, b]

\* scalar * vector
VScaleFn[s \in GLfloat, a \in GLvec3] ==
  <<FMulFn[s, a[1]], FMulFn[s, a[2]], FMulFn[s, a[3]]>>

VScale(s, a) == VScaleFn[s, a]

\* vector / scalar
VDivSFn[a \in GLvec3, s \in GLfloat] ==
  <<FDivFn[a[1], s], FDivFn[a[2], s], FDivFn[a[3], s]>>

VDivS(a, s) == VDivSFn[a, s]

VDotFn[a \in GLvec3, b \in GLvec3] ==
  FAddFn[FAddFn[FMulFn[a[1], b[1]], FMulFn[a[2], b[2]]], FMulFn[a[3], b[3]]]

VDot(a, b) == VDotFn[a, b]

\* glm::length
VLengthFn[a \in GLvec3] == FSqrtFn[VDotFn[a, a]]

VLength(a) == VLengthFn[a]

\* ------------------------------------------------------------------------
\* Program constants.
\* ------------------------------------------------------------------------

\* #define SIM_SECONDS_PER_REAL_SECOND 1.0f
SIM_SECONDS_PER_REAL_SECOND == FromInt(1)

\* 10^-5 as a GLfloat.
TenToMinus5 == FromRat(1, 100000)

\* #define DEFAULT_G 6.67384e-20f, built as 6.67384 * (10^-5)^4.
DEFAULT_G ==
  FMul(FromRat(667384, 100000),
       FMul(FMul(TenToMinus5, TenToMinus5), FMul(TenToMinus5, TenToMinus5)))

\* #define DEGREES_PER_REV 360
DEGREES_PER_REV == 360

\* #define DEG_TO_RAD (M_PI / 180.0f)
DEG_TO_RAD == FromRat(17453, 1000000)

\* (GLfloat) (2 * M_PI)
TWO_PI == FromRat(6283185, 1000000)

\* x < 2 * M_PI, the comparison made in double precision against the
\* unrounded 2*pi = 6.283185...
LessTwoPiFn[x \in GLfloat] ==
  IF x.k = "nan" THEN FALSE
  ELSE IF x.k = "inf" THEN x.m < 0
  ELSE IF x.m <= 0 THEN TRUE
  ELSE IF x.e + PrecBits >= 4 THEN FALSE
  ELSE IF x.e + PrecBits <= 2 THEN TRUE
  ELSE x.m * 1000000 < 6283185 * Pow2(-x.e)

LessTwoPiDouble(x) == LessTwoPiFn[x]

\* The null pointer.
NULL == 0

\* ------------------------------------------------------------------------
\* OrbitalBody.
\* ------------------------------------------------------------------------

\* glm::rotateX(DEFAULT_ROT_AXIS, angle): the default axis (0, 1, 0) turned
\* by `angle` about the X axis, kept as that angle.
RotateX(angle) == [about |-> "X", angle |-> angle]

\* #define DEFAULT_ROT_AXIS glm::vec3(+0.0f, +1.0f, +0.0f)
DEFAULT_ROT_AXIS == RotateX(Zero)

\* glm::mat4(): the identity, as the product translate * rotate * scale of
\* no translation, no rotation and unit scale.
IdentityMat4 ==
  [translate |-> VZero, tilted |-> FALSE, tilt |-> Zero, spin |-> Zero,
   scale |-> <<FromInt(1), FromInt(1), FromInt(1)>>]

\* OrbitalBody::setRotationalAxis: the tilt angle in radians, and the axis.
SetRotationalAxis(b, tilt) ==
  [b EXCEPT !.rotationalAngle = FMul(tilt, DEG_TO_RAD),
            !.rotationalAxis  = RotateX(FMul(tilt, DEG_TO_RAD))]

\* OrbitalBody::setAngularVelocity
SetAngularVelocity(b, w) == [b EXCEPT !.angularVelocity = w]

\* A setter of the angular position that also lays the axis over by it.
SetAngularPositionTilting(b, a) ==
  [b EXCEPT !.angularPosition = IF LessTwoPiDouble(a) THEN a ELSE FSub(a, TWO_PI),
            !.rotationalAngle = a]

\* OrbitalBody::setAngularPosition: one revolution is taken off a value
\* that is not below 2*pi.
SetAngularPosition(b, a) ==
  [b EXCEPT !.angularPosition = IF LessTwoPiDouble(a) THEN a ELSE FSub(a, TWO_PI)]

\* OrbitalBody::OrbitalBody
NewOrbitalBody(name, mass, radius, position, velocity, tilt, angularVelocity) ==
  SetAngularVelocity(
    SetRotationalAxis(
      [name            |-> name,
       radius          |-> radius,
       scale           |-> VScale(radius, <<FromInt(1), FromInt(1), FromInt(1)>>),
       mass            |-> mass,
       gravityVector   |-> VZero,
       linearPosition  |-> position,
       linearVelocity  |-> velocity,
       linearAccel     |-> VZero,
       linearThrust    |-> VZero,
       rotationalAxis  |-> DEFAULT_ROT_AXIS,
       rotationalAngle |-> Zero,
       angularPosition |-> Zero,
       angularVelocity |-> Zero,
       angularAccel    |-> Zero,
       angularThrust   |-> Zero,
       modelToWorld    |-> IdentityMat4],
      tilt),
    angularVelocity)

\* A renderer that also turns the body by its angular velocity as it draws.
UpdateModelToWorldSpinning(b) ==
  [b EXCEPT !.modelToWorld =
     [translate |-> b.linearPosition,
      tilted    |-> b.rotationalAxis # DEFAULT_ROT_AXIS,
      tilt      |-> IF b.rotationalAxis # DEFAULT_ROT_AXIS
                    THEN b.rotationalAngle ELSE Zero,
      spin      |-> b.angularPosition,
      scale     |-> b.scale],
            !.angularPosition = FAdd(b.angularPosition, b.angularVelocity)]

\* OrbitalBody::updateModelToWorld: tranM * rotM * scaleM, where rotM tilts
\* by rotationalAngle only when the axis is not the default one, and then
\* spins by angularPosition about the default axis.
UpdateModelToWorld(b) ==
  [b EXCEPT !.modelToWorld =
     [translate |-> b.linearPosition,
      tilted    |-> b.rotationalAxis # DEFAULT_ROT_AXIS,
      tilt      |-> IF b.rotationalAxis # DEFAULT_ROT_AXIS
                    THEN b.rotationalAngle ELSE Zero,
      spin      |-> b.angularPosition,
      scale     |-> b.scale]]

\* OrbitalBody::draw: the transform is refreshed and handed to the shader.
Draw(b) == UpdateModelToWorld(b)

\* OrbitalBody::increment, past its mass guard: the forward-Euler update.
IncrementBody(b, dt) ==
  LET la == VAdd(b.linearAccel, VScale(dt, VDivS(b.linearThrust, b.mass)))
      lv == VAdd(b.linearVelocity,
                 VAdd(VScale(dt, la), VDivS(b.gravityVector, b.mass)))
      lp == VAdd(b.linearPosition, VScale(dt, lv))
      aa == FAdd(b.angularAccel, FMul(dt, FDiv(b.angularThrust, b.mass)))
      av == FAdd(b.angularVelocity, FMul(dt, aa))
      ap == FAdd(b.angularPosition, FMul(dt, av))
  IN [b EXCEPT !.linearAccel     = la,
               !.linearVelocity  = lv,
               !.linearPosition  = lp,
               !.angularAccel    = aa,
               !.angularVelocity = av,
               !.angularPosition = IF FLess(FromInt(DEGREES_PER_REV), ap)
                                   THEN FSub(ap, FromInt(DEGREES_PER_REV))
                                   ELSE ap]

\* An increment without its mass guard.
IncrementNeverSkips(b) == FALSE

\* The mass guard of OrbitalBody::increment: a body of mass 0 is skipped.
IncrementSkips(b) == b.mass = Zero

\* OrbitalBody::increment
Increment(b, dt) == IF IncrementSkips(b) THEN b ELSE IncrementBody(b, dt)

\* The divisions by the mass that one increment call performs.
IncrementDivisions(b) == IF IncrementSkips(b) THEN 0 ELSE 3

\* ------------------------------------------------------------------------
\* OrbitalSystem: gravity and the Runge-Kutta step.  h is the heap (pointer
\* -> OrbitalBody), bs the body collection, g the gravitational constant.
\* ------------------------------------------------------------------------

\* magnitude * direction of OrbitalSystem::gravityVector, with
\* magnitude = (G * mass) / (radius * radius) and direction /= radius.
GravityPull[g \in GLfloat, mass \in GLfloat, direction \in GLvec3, radius \in GLfloat] ==
  VScaleFn[FDivFn[FMulFn[g, mass], FMulFn[radius, radius]],
           VDivSFn[direction, radius]]

\* radius = glm::length(direction)
GravityAlong[g \in GLfloat, mass \in GLfloat, direction \in GLvec3] ==
  GravityPull[g, mass, direction, VLengthFn[direction]]

\* One pass of the loop body of OrbitalSystem::gravityVector for `body`:
\* direction = body->getLinearPosition() - position.
GravityTerm(h, g, body, position) ==
  GravityAlong[g, h[body].mass, VSubFn[h[body].linearPosition, position]]

\* A gravity loop that does not skip the subject itself.
RECURSIVE GravityLoopAll(_, _, _, _, _, _, _)
GravityLoopAll(h, bs, g, subject, position, i, netGravity) ==
  IF i > Len(bs) THEN netGravity
  ELSE GravityLoopAll(h, bs, g, subject, position, i + 1,
         VAdd(netGravity, GravityTerm(h, g, bs[i], position)))

\* The loop of OrbitalSystem::gravityVector from index i on.
RECURSIVE GravityLoop(_, _, _, _, _, _, _)
GravityLoop(h, bs, g, subject, position, i, netGravity) ==
  IF i > Len(bs) THEN netGravity
  ELSE GravityLoop(h, bs, g, subject, position, i + 1,
         IF bs[i] # subject
         THEN VAdd(netGravity, GravityTerm(h, g, bs[i], position))
         ELSE netGravity)

\* OrbitalSystem::gravityVector
GravityVector(h, bs, g, subject, position) ==
  Let(position, LAMBDA at : GravityLoop(h, bs, g, subject, at, 1, VZero))

\* The acceleration with the thrust term: netAcceleration += dt * thrust.
AWithThrust(h, bs, g, subject, position, dt) ==
  VAdd(GravityVector(h, bs, g, subject, position),
       VScale(dt, h[subject].linearThrust))

\* OrbitalSystem::A
A(h, bs, g, subject, position, dt) == GravityVector(h, bs, g, subject, position)

\* The combination of the four stage values in rungeKuttaApprx:
\* c * (s[0] + s[1] + s[2] + s[3]) with c = 1.0f / 6.0f.
RKCombine(s0, s1, s2, s3) ==
  VScale(FDiv(FromInt(1), FromInt(6)), VAdd(VAdd(VAdd(s0, s1), s2), s3))

\* The stages k[0..3], l[0..3] of rungeKuttaApprx.
RKStages(h, bs, g, subject, dt) ==
  LET half == FromRat(1, 2)
      r  == h[subject].linearPosition
      v  == h[subject].linearVelocity
      k0 == VScale(dt, v)
      l0 == VScale(dt, A(h, bs, g, subject, r, Zero))
      k1 == VScale(dt, VAdd(v, VScale(half, l0)))
      l1 == VScale(dt, A(h, bs, g, subject, VAdd(r, VScale(half, k0)), FMul(half, dt)))
      k2 == VScale(dt, VAdd(v, VScale(half, l1)))
      l2 == VScale(dt, A(h, bs, g, subject, VAdd(r, VScale(half, k1)), FMul(half, dt)))
      k3 == VScale(dt, VAdd(v, l2))
      l3 == VScale(dt, A(h, bs, g, subject, VAdd(r, k2), dt))
  IN [k |-> <<k0, k1, k2, k3>>, l |-> <<l0, l1, l2, l3>>]

\* A step that, having moved the subject, also refreshes the stored gravity
\* vector of every body of the collection.
RKCommitRefreshAll(h, bs, g, subject, dt, r, v) ==
  LET h1 == [h EXCEPT ![subject].linearPosition = r,
                      ![subject].linearVelocity = v]
      h2 == [q \in 1..Len(h1) |->
               IF \E i \in 1..Len(bs) : bs[i] = q
               THEN [h1[q] EXCEPT !.gravityVector =
                       GravityVector(h1, bs, g, q, h1[q].linearPosition)]
               ELSE h1[q]]
  IN [h2 EXCEPT ![subject] =
        SetAngularPosition(h2[subject],
          FAdd(h[subject].angularPosition, FMul(h[subject].angularVelocity, dt)))]

\* The end of rungeKuttaApprx: the setters called with the new r and v.
RKCommit(h, bs, g, subject, dt, r, v) ==
  LET h1 == [h EXCEPT ![subject].linearPosition = r,
                      ![subject].linearVelocity = v]
  IN [h1 EXCEPT ![subject] =
        SetAngularPosition(
          [h1[subject] EXCEPT !.gravityVector = GravityVector(h1, bs, g, subject, r)],
          FAdd(h[subject].angularPosition, FMul(h[subject].angularVelocity, dt)))]

\* The new r and v of rungeKuttaApprx: r += c * (k[0] + ... + k[3]) and
\* v += c * (l[0] + ... + l[3]).
RKAdvance(r, v, st) ==
  <<VAdd(r, RKCombine(st.k[1], st.k[2], st.k[3], st.k[4])),
    VAdd(v, RKCombine(st.l[1], st.l[2], st.l[3], st.l[4]))>>

\* OrbitalSystem::rungeKuttaApprx: the heap after the step of `subject`.
RungeKuttaApprx(h, bs, g, subject, dt) ==
  Let(RKStages(h, bs, g, subject, dt), LAMBDA st :
    Let(RKAdvance(h[subject].linearPosition, h[subject].linearVelocity, st),
        LAMBDA rv : RKCommit(h, bs, g, subject, dt, rv[1], rv[2])))

\* An interpolate loop that also steps the celestial sphere.
InterpolateSubjectsWithSphere(bs, sphere) ==
  IF sphere = NULL THEN bs ELSE bs \o <<sphere>>

\* The subjects of the loop of OrbitalSystem::interpolate, in order.
InterpolateSubjects(bs, sphere) == bs

\* The loop of OrbitalSystem::interpolate over the subjects from index i on.
RECURSIVE InterpolateLoop(_, _, _, _, _, _)
InterpolateLoop(h, bs, g, subjects, dt, i) ==
  IF i > Len(subjects) THEN h
  ELSE Let(RungeKuttaApprx(h, bs, g, subjects[i], dt),
           LAMBDA h1 : InterpolateLoop(h1, bs, g, subjects, dt, i + 1))

\* The simulated time of realSeconds of real time.
SimSeconds(realSeconds) == FMul(realSeconds, SIM_SECONDS_PER_REAL_SECOND)

\* A clock that is set to the step instead of advanced by it.
AdvanceClockTo(c, dt) == dt

\* The clock after OrbitalSystem::interpolate.
AdvanceClock(c, dt) == FAdd(c, dt)

\* ------------------------------------------------------------------------
\* Inputs: what the host and the system description supply.
\* ------------------------------------------------------------------------

IVec(x, y, z) == <<FromInt(x), FromInt(y), FromInt(z)>>

\* Body records as written in a system description or passed by the host:
\* a heavy body at the origin, a light one in orbit, a massless probe with a
\* backward spin, and a body placed on top of the first.
RawBodies ==
  { [name |-> "Sun",    mass |-> 8, radius |-> 2, position |-> <<0, 0, 0>>,
     velocity |-> <<0, 0, 0>>, tilt |-> 0,  rotationalSpeed |-> 1],
    [name |-> "Planet", mass |-> 1, radius |-> 1, position |-> <<4, 0, 0>>,
     velocity |-> <<0, 1, 0>>, tilt |-> 23, rotationalSpeed |-> 8],
    [name |-> "Probe",  mass |-> 0, radius |-> 1, position |-> <<0, 3, 0>>,
     velocity |-> <<1, 0, 0>>, tilt |-> 90, rotationalSpeed |-> -1],
    [name |-> "Twin",   mass |-> 2, radius |-> 1, position |-> <<0, 0, 0>>,
     velocity |-> <<0, 0, 1>>, tilt |-> 0,  rotationalSpeed |-> 4] }

\* The body lists of the system descriptions: distinct records, in any order.
RawBodyLists ==
  UNION { { q \in [1..n -> RawBodies] : \A i, j \in 1..n : q[i] = q[j] => i = j }
          : n \in 0..MaxLoaded }

\* The system descriptions: a readable file with its values, or no file.
Descriptions ==
  { [ok |-> TRUE, g |-> 1, scale |-> sc, bgRadius |-> 100, bgTilt |-> 0,
     bodies |-> q] : sc \in {1, 4}, q \in RawBodyLists }
  \cup { [ok |-> FALSE, g |-> 0, scale |-> 1, bgRadius |-> 0, bgTilt |-> 0,
          bodies |-> <<>>] }

\* Elapsed real time passed to interpolate and increment, in seconds.
RealSeconds == {0, 1, 2}

\* Thrust values the host sets.
LinearThrusts == { <<1, 0, 0>> }

AngularThrusts == { 1 }

\* Tilts the host sets, in degrees.
Tilts == { 45 }

\* ------------------------------------------------------------------------
\* OrbitalSystem: construction.
\* ------------------------------------------------------------------------

\* The celestial sphere: a body of mass 0 at rest at the origin.
CelestialSphere(radius, tilt) ==
  NewOrbitalBody("Celestial Sphere", Zero, radius, VZero, VZero, tilt, Zero)

\* A body of a loader that divides the velocity by the unit scale itself.
LoadedBodyUnrooted(raw, scaleF) ==
  NewOrbitalBody(raw.name,
                 FDiv(FromInt(raw.mass), scaleF),
                 FDiv(FromInt(raw.radius), scaleF),
                 VDivS(IVec(raw.position[1], raw.position[2], raw.position[3]), scaleF),
                 VDivS(IVec(raw.velocity[1], raw.velocity[2], raw.velocity[3]), scaleF),
                 FromInt(raw.tilt),
                 FromInt(raw.rotationalSpeed))

\* A body of loadFile: the parsed values divided by the unit scale.
LoadedBody(raw, scaleF) ==
  NewOrbitalBody(raw.name,
                 FDiv(FromInt(raw.mass), scaleF),
                 FDiv(FromInt(raw.radius), scaleF),
                 VDivS(IVec(raw.position[1], raw.position[2], raw.position[3]), scaleF),
                 VDivS(IVec(raw.velocity[1], raw.velocity[2], raw.velocity[3]),
                       FSqrt(scaleF)),
                 FromInt(raw.tilt),
                 FromInt(raw.rotationalSpeed))

\* A body the host constructs itself, from the values as given.
HostBody(raw) ==
  NewOrbitalBody(raw.name, FromInt(raw.mass), FromInt(raw.radius),
                 IVec(raw.position[1], raw.position[2], raw.position[3]),
                 IVec(raw.velocity[1], raw.velocity[2], raw.velocity[3]),
                 FromInt(raw.tilt), FromInt(raw.rotationalSpeed))

\* The private default constructor: no bodies, no celestial sphere.
EmptySystem ==
  [G |-> Zero, clock |-> Zero, scale |-> FromInt(1), bodies |-> <<>>,
   celestialSphere |-> NULL, heap |-> <<>>]

\* The public constructor: a celestial sphere and the default G.
ConstructedSystem(starsScale) ==
  [G |-> DEFAULT_G, clock |-> Zero, scale |-> FromInt(1), bodies |-> <<>>,
   celestialSphere |-> 1, heap |-> <<CelestialSphere(FromInt(starsScale), Zero)>>]

\* OrbitalSystem::loadFile: the sphere is allocated first, then one body
\* per record, each added at the end of the collection.
LoadFile(desc) ==
  IF ~desc.ok THEN EmptySystem
  ELSE LET scaleF == FromInt(desc.scale)
           n == Len(desc.bodies)
       IN [G |-> FDiv(FromInt(desc.g), scaleF),
           clock |-> Zero,
           scale |-> scaleF,
           bodies |-> [i \in 1..n |-> i + 1],
           celestialSphere |-> 1,
           heap |-> <<CelestialSphere(FromInt(desc.bgRadius), FromInt(desc.bgTilt))>>
                    \o [i \in 1..n |-> LoadedBody(desc.bodies[i], scaleF)]]

\* What stands for the description of a system built by the public
\* constructor: no file, the radius of the sphere given by the host.
NoDescription ==
  [ok |-> FALSE, g |-> 0, scale |-> 1, bgRadius |-> 100, bgTilt |-> 0,
   bodies |-> <<>>]

\* OrbitalSystem::getDrawables: the celestial sphere, then the bodies.
GetDrawables(bs, sphere) == <<sphere>> \o bs

\* The loop of Window::repaint from index i on: every Drawable is drawn.
\* (Drawing through a null pointer is undefined; where the program goes on,
\* nothing is drawn for that entry.)
RECURSIVE RepaintLoop(_, _, _)
RepaintLoop(h, ds, i) ==
  IF i > Len(ds) THEN h
  ELSE RepaintLoop(IF ds[i] = NULL THEN h ELSE [h EXCEPT ![ds[i]] = Draw(h[ds[i]])],
                   ds, i + 1)

\* The entries of ds before its first null pointer.
BeforeNull(ds) ==
  SubSeq(ds, 1, (CHOOSE i \in 1..Len(ds) : ds[i] = NULL /\ \A j \in 1..(i - 1) : ds[j] # NULL) - 1)

\* ------------------------------------------------------------------------
\* EventManager.
\* ------------------------------------------------------------------------

\* #define WARP_SCALE 1.25f
WARP_SCALE == FromRat(5, 4)

\* #define MAX_WARP 4.0f
MAX_WARP == FromInt(4)

\* #define MIN_WARP 0.25f
MIN_WARP == FromRat(1, 4)

\* main: GLfloat warpFactor = + 8.000e2f;
InitialWarpFactor == FromInt(800)

\* The keys whose presses are told apart: speed up, slow down, quit, and a
\* camera key (W), which touches the camera only.
Keys == {"T", "R", "ESCAPE", "W"}

\* EventManager::handleKeyPress: the warp factor and the quit flag after it.
HandleKeyPress(w, q, key) ==
  IF key = "T"
  THEN [warpFactor |-> IF FLess(w, MAX_WARP) THEN FMul(w, WARP_SCALE) ELSE w,
        quit |-> q]
  ELSE IF key = "R"
  THEN [warpFactor |-> IF FLess(MIN_WARP, w) THEN FDiv(w, WARP_SCALE) ELSE w,
        quit |-> q]
  ELSE IF key = "ESCAPE"
  THEN [warpFactor |-> w, quit |-> TRUE]
  ELSE [warpFactor |-> w, quit |-> q]

\* ------------------------------------------------------------------------
\* ShaderSingleton.
\* ------------------------------------------------------------------------

\* ShaderSingleton::createShaderSingleton
CreateShaderSingleton(inst, objs) ==
  IF inst = NULL
  THEN [instance |-> Len(objs) + 1, singletons |-> Append(objs, 0)]
  ELSE [instance |-> inst, singletons |-> objs]

\* ShaderSingleton::destroyShaderSingleton: delete instance.
DestroyShaderSingleton(inst, objs) ==
  IF inst = NULL
  THEN [instance |-> inst, singletons |-> objs]
  ELSE [instance |-> inst, singletons |-> [objs EXCEPT ![inst] = @ + 1]]

\* ------------------------------------------------------------------------
\* State.
\* ------------------------------------------------------------------------

VARIABLES
  G,                \* OrbitalSystem::G
  clock,            \* OrbitalSystem::clock
  scale,            \* OrbitalSystem::scale
  bodies,           \* OrbitalSystem::bodies: pointers, in collection order
  celestialSphere,  \* OrbitalSystem::celestialSphere: a pointer or NULL
  heap,             \* the OrbitalBody objects allocated so far, by pointer
  released,         \* how many times each object has been deleted
  added,            \* the pointers ever passed to addBody
  lastOp,           \* the operation performed last, with its arguments
  nOps,             \* operations performed since construction
  source,           \* the system description loadFile was given
  drawables,        \* the vector getDrawables returned last
  nullUses,         \* how many times a null Drawable has been drawn
  warpFactor,       \* main: warpFactor, referenced by the EventManager
  quit,             \* main: quit, referenced by the EventManager
  instance,         \* ShaderSingleton::instance: a pointer or NULL
  singletons,       \* per ShaderSingleton constructed: times deleted
  pc,               \* where main is
  event,            \* main: event.type (and the key of a key press)
  micros,           \* main: micros
  frameStart,       \* main: frameStart
  now,              \* the time, in microseconds
  platform,         \* the build: which branch of getMicros is compiled
  frames,           \* the calls of Window::repaint main has made
  isInitialized,    \* Runnable::isInitialized
  isRunning,        \* Runnable::isRunning
  terminateSelf,    \* Runnable::terminateSelf
  threads,          \* the vector of threads handed to spawnThread
  callers,          \* the threads calling spawnThread: position and result
  configFile,       \* Configurable: the file named by configFile, as parsed
  executed,         \* the scripts handed to system(), in order
  lateScripts,      \* Configurable::lateScripts
  configResult      \* what parseConfigFile returned

\* The OrbitalSystem, its bodies and the record of the calls made on it.
sysVars == <<G, clock, scale, bodies, celestialSphere, heap, released, added,
             lastOp, nOps, source, drawables, nullUses>>

\* The variables of main that the EventManager holds references to.
eventVars == <<warpFactor, quit>>

\* The ShaderSingleton and the rest of main.
mainVars == <<instance, singletons, pc, event, micros, frameStart, now, frames,
              platform>>

\* One Runnable and the threads around it.
runVars == <<isInitialized, isRunning, terminateSelf, threads, callers>>

\* One Configurable and the scripts run for it.
cfgVars == <<configFile, executed, lateScripts, configResult>>

vars == <<sysVars, eventVars, mainVars, runVars, cfgVars>>

\* A record of one call: its name, the body or index it was given, its time
\* argument, the subjects it ran the Runge-Kutta step for, in order, and the
\* number of divisions by a mass it made.
Op(name, p, dt, rk, divs) ==
  [op |-> name, p |-> p, dt |-> dt, rk |-> rk, divs |-> divs]

Range(q) == { q[i] : i \in 1..Len(q) }

\* The callers of Runnable::spawnThread.
Callers == {"c1", "c2"}

\* No Runnable is in use.
RunIdle ==
  /\ isInitialized = FALSE
  /\ isRunning = FALSE
  /\ terminateSelf = FALSE
  /\ threads = <<>>
  /\ callers = [c \in Callers |-> [at |-> "idle", result |-> "None", calls |-> 0]]

\* The variables of main as the first statements of main leave them.
EventsIdle ==
  /\ warpFactor = InitialWarpFactor
  /\ quit = FALSE

\* main is not running: the host drives the system call by call, with the
\* ShaderSingleton created beforehand, as every OrbitalBody needs it.
MainIdle ==
  /\ instance = CreateShaderSingleton(NULL, <<>>).instance
  /\ singletons = CreateShaderSingleton(NULL, <<>>).singletons
  /\ pc = "calls"
  /\ event = "NONE"
  /\ micros = 0
  /\ frameStart = 0
  /\ now = 0
  /\ frames = 0
  /\ platform = "linux"

\* No Configurable is being constructed.
ConfigIdle ==
  /\ configFile = [found |-> FALSE, scripts |-> <<>>]
  /\ executed = <<>>
  /\ lateScripts = <<>>
  /\ configResult = "None"

\* The state a freshly built system `sys` starts in.
Start(sys, how, desc) ==
  /\ source = desc
  /\ drawables = <<>>
  /\ nullUses = 0
  /\ G = sys.G
  /\ clock = sys.clock
  /\ scale = sys.scale
  /\ bodies = sys.bodies
  /\ celestialSphere = sys.celestialSphere
  /\ heap = sys.heap
  /\ released = [p \in 1..Len(sys.heap) |-> 0]
  /\ added = Range(sys.bodies)
  /\ lastOp = Op(how, NULL, Zero, <<>>, 0)
  /\ nOps = 0

Init ==
  /\ \/ \E desc \in Descriptions : Start(LoadFile(desc), "loadFile", desc)
     \/ Start(ConstructedSystem(100), "construct", NoDescription)
  /\ EventsIdle
  /\ MainIdle
  /\ RunIdle
  /\ ConfigIdle

\* The system has been torn down by cleanUp.
TornDown == lastOp.op = "cleanUp"

\* The program has died on the use of a null pointer.
Crashed == lastOp.op = "crashed"

CanAct == ~TornDown /\ ~Crashed /\ nOps < MaxOps

\* The bodies the host holds a pointer to: every body but the sphere.
HostBodies == { p \in 1..Len(heap) : p # celestialSphere }

\* ------------------------------------------------------------------------
\* Operations.
\* ------------------------------------------------------------------------

\* OrbitalSystem::addBody with a body the host has just constructed.
AddNewBody(raw) ==
  /\ CanAct
  /\ Len(heap) < MaxObjects
  /\ heap' = Append(heap, HostBody(raw))
  /\ released' = Append(released, 0)
  /\ bodies' = Append(bodies, Len(heap) + 1)
  /\ added' = added \cup {Len(heap) + 1}
  /\ lastOp' = Op("addBody", Len(heap) + 1, Zero, <<>>, 0)
  /\ nOps' = nOps + 1
  /\ UNCHANGED <<G, clock, scale, celestialSphere>>
  /\ UNCHANGED <<source, drawables, nullUses, eventVars, mainVars, runVars, cfgVars>>

\* OrbitalSystem::addBody with a body that was removed before.
AddOldBody(p) ==
  /\ CanAct
  /\ p \in HostBodies \ Range(bodies)
  /\ bodies' = Append(bodies, p)
  /\ added' = added \cup {p}
  /\ lastOp' = Op("addBody", p, Zero, <<>>, 0)
  /\ nOps' = nOps + 1
  /\ UNCHANGED <<G, clock, scale, celestialSphere, heap, released>>
  /\ UNCHANGED <<source, drawables, nullUses, eventVars, mainVars, runVars, cfgVars>>

\* A removal that takes the last body whatever the index.
EraseLast(bs, i) == SubSeq(bs, 1, Len(bs) - 1)

\* The collection after bodies.erase(bodies.begin() + i), 0 <= i < size.
Erase(bs, i) == SubSeq(bs, 1, i) \o SubSeq(bs, i + 2, Len(bs))

\* What bodies.erase(bodies.begin() + i) with i >= size, which is
\* undefined, leaves of a collection that is not empty where the program
\* goes on: the collection without its last element (nothing is moved, and
\* the end pointer is stepped back by one).
EraseOutOfRange(bs) == SubSeq(bs, 1, Len(bs) - 1)

\* OrbitalSystem::removeBody(i): no test of the index is made.  With an
\* index past the end the program dies, or goes on without any report.
RemoveBody(i) ==
  /\ CanAct
  /\ IF i < Len(bodies)
     THEN /\ bodies' = Erase(bodies, i)
          /\ lastOp' = Op("removeBody", i, Zero, <<>>, 0)
     ELSE \/ /\ Len(bodies) > 0
             /\ bodies' = EraseOutOfRange(bodies)
             /\ lastOp' = Op("removeBody", i, Zero, <<>>, 0)
          \/ /\ bodies' = bodies
             /\ lastOp' = Op("crashed", i, Zero, <<>>, 0)
  /\ nOps' = nOps + 1
  /\ UNCHANGED <<G, clock, scale, celestialSphere, heap, released, added>>
  /\ UNCHANGED <<source, drawables, nullUses, eventVars, mainVars, runVars, cfgVars>>

\* bodies.at(i): the pointer at index i, or NULL where at() throws.
At(bs, i) == IF i < Len(bs) THEN bs[i + 1] ELSE NULL

\* OrbitalSystem::getBody(i): the pointer at index i is returned, or
\* std::out_of_range is thrown by bodies.at(i).
GetBody(i) ==
  /\ CanAct
  /\ lastOp' = IF i < Len(bodies)
               THEN Op("getBody", i, Zero, <<At(bodies, i)>>, 0)
               ELSE Op("out_of_range", i, Zero, <<>>, 0)
  /\ nOps' = nOps + 1
  /\ UNCHANGED <<G, clock, scale, bodies, celestialSphere, heap, released, added>>
  /\ UNCHANGED <<source, drawables, nullUses, eventVars, mainVars, runVars, cfgVars>>

\* OrbitalBody::setRotationalAxis on a body the host holds.
SetRotationalAxisCall(p, tilt) ==
  /\ CanAct
  /\ p \in HostBodies
  /\ heap[p] # SetRotationalAxis(heap[p], tilt)
  /\ heap' = [heap EXCEPT ![p] = SetRotationalAxis(heap[p], tilt)]
  /\ lastOp' = Op("setRotationalAxis", p, tilt, <<>>, 0)
  /\ nOps' = nOps + 1
  /\ UNCHANGED <<G, clock, scale, bodies, celestialSphere, released, added>>
  /\ UNCHANGED <<source, drawables, nullUses, eventVars, mainVars, runVars, cfgVars>>

\* OrbitalSystem::interpolate
Interpolate(realSeconds) ==
  LET dt == SimSeconds(realSeconds)
      subjects == InterpolateSubjects(bodies, celestialSphere)
  IN /\ CanAct
     /\ clock' = AdvanceClock(clock, dt)
     /\ heap' = InterpolateLoop(heap, bodies, G, subjects, dt, 1)
     /\ lastOp' = Op("interpolate", NULL, realSeconds, subjects, 0)
     /\ nOps' = nOps + 1
     /\ UNCHANGED <<G, scale, bodies, celestialSphere, released, added>>
     /\ UNCHANGED <<source, drawables, nullUses, eventVars, mainVars, runVars, cfgVars>>

\* OrbitalBody::increment on a body the host holds.
IncrementCall(p, dt) ==
  /\ CanAct
  /\ p \in HostBodies
  /\ heap' = [heap EXCEPT ![p] = Increment(heap[p], dt)]
  /\ lastOp' = Op("increment", p, dt, <<>>, IncrementDivisions(heap[p]))
  /\ nOps' = nOps + 1
  /\ UNCHANGED <<G, clock, scale, bodies, celestialSphere, released, added>>
  /\ UNCHANGED <<source, drawables, nullUses, eventVars, mainVars, runVars, cfgVars>>

\* OrbitalBody::setLinearThrust
SetLinearThrust(p, t) ==
  /\ CanAct
  /\ p \in HostBodies
  /\ heap[p].linearThrust # t
  /\ heap' = [heap EXCEPT ![p].linearThrust = t]
  /\ lastOp' = Op("setLinearThrust", p, Zero, <<>>, 0)
  /\ nOps' = nOps + 1
  /\ UNCHANGED <<G, clock, scale, bodies, celestialSphere, released, added>>
  /\ UNCHANGED <<source, drawables, nullUses, eventVars, mainVars, runVars, cfgVars>>

\* OrbitalBody::setAngularThrust
SetAngularThrust(p, t) ==
  /\ CanAct
  /\ p \in HostBodies
  /\ heap[p].angularThrust # t
  /\ heap' = [heap EXCEPT ![p].angularThrust = t]
  /\ lastOp' = Op("setAngularThrust", p, Zero, <<>>, 0)
  /\ nOps' = nOps + 1
  /\ UNCHANGED <<G, clock, scale, bodies, celestialSphere, released, added>>
  /\ UNCHANGED <<source, drawables, nullUses, eventVars, mainVars, runVars, cfgVars>>

\* The objects cleanUp deletes: the sphere, then every entry of the
\* collection (delete of a null pointer does nothing).
CleanUpDeletes(bs, sphere) ==
  (IF sphere = NULL THEN <<>> ELSE <<sphere>>)
  \o SelectSeq(bs, LAMBDA p : p # NULL)

\* How often pointer p occurs in the sequence q.
Count(q, p) == Cardinality({ i \in 1..Len(q) : q[i] = p })

\* OrbitalSystem::cleanUp
CleanUp ==
  /\ ~TornDown
  /\ ~Crashed
  /\ released' = [p \in 1..Len(heap) |->
                    released[p] + Count(CleanUpDeletes(bodies, celestialSphere), p)]
  /\ celestialSphere' = NULL
  /\ bodies' = [i \in 1..Len(bodies) |-> NULL]
  /\ lastOp' = Op("cleanUp", NULL, Zero, <<>>, 0)
  /\ nOps' = nOps + 1
  /\ UNCHANGED <<G, clock, scale, heap, added>>
  /\ UNCHANGED <<source, drawables, nullUses, eventVars, mainVars, runVars, cfgVars>>

\* The host asks for the Drawables and has the window paint them:
\* OrbitalSystem::getDrawables, then Window::repaint.  Drawing through a null
\* pointer is undefined: the program dies there, or goes on.
Repaint ==
  /\ CanAct
  /\ drawables' = GetDrawables(bodies, celestialSphere)
  /\ \/ /\ heap' = RepaintLoop(heap, GetDrawables(bodies, celestialSphere), 1)
        /\ nullUses' = nullUses + Count(GetDrawables(bodies, celestialSphere), NULL)
        /\ lastOp' = Op("repaint", NULL, Zero, <<>>, 0)
     \/ /\ Count(GetDrawables(bodies, celestialSphere), NULL) > 0
        /\ heap' = RepaintLoop(heap, BeforeNull(GetDrawables(bodies, celestialSphere)), 1)
        /\ nullUses' = nullUses + 1
        /\ lastOp' = Op("crashed", NULL, Zero, <<>>, 0)
  /\ nOps' = nOps + 1
  /\ UNCHANGED <<G, clock, scale, bodies, celestialSphere, released, added>>
  /\ UNCHANGED <<source, eventVars, mainVars, runVars, cfgVars>>

\* EventManager::handleKeyPress
KeyPress(key) ==
  /\ CanAct
  /\ warpFactor' = HandleKeyPress(warpFactor, quit, key).warpFactor
  /\ quit' = HandleKeyPress(warpFactor, quit, key).quit
  /\ lastOp' = Op(key, NULL, Zero, <<>>, 0)
  /\ nOps' = nOps + 1
  /\ UNCHANGED <<G, clock, scale, bodies, celestialSphere, heap, released, added>>
  /\ UNCHANGED <<source, drawables, nullUses, mainVars, runVars, cfgVars>>

Next ==
  \/ Repaint
  \/ \E key \in Keys : KeyPress(key)
  \/ \E raw \in RawBodies : AddNewBody(raw)
  \/ \E p \in 1..MaxObjects : AddOldBody(p)
  \/ \E i \in 0..(MaxObjects - 1) : RemoveBody(i)
  \/ \E i \in 0..(MaxObjects - 1) : GetBody(i)
  \/ \E p \in 1..MaxObjects, t \in Tilts : SetRotationalAxisCall(p, FromInt(t))
  \/ \E s \in RealSeconds : Interpolate(FromInt(s))
  \/ \E p \in 1..MaxObjects, s \in RealSeconds : IncrementCall(p, FromInt(s))
  \/ \E p \in 1..MaxObjects, t \in LinearThrusts :
        SetLinearThrust(p, IVec(t[1], t[2], t[3]))
  \/ \E p \in 1..MaxObjects, t \in AngularThrusts : SetAngularThrust(p, FromInt(t))
  \/ CleanUp

Spec == Init /\ [][Next]_vars

\* ------------------------------------------------------------------------
\* main: the host program as written.
\* ------------------------------------------------------------------------

\* #define FRAMES_PER_SECOND 40
FRAMES_PER_SECOND == 40

\* #define MICROS_PER_SECOND 10e6
MICROS_PER_SECOND == 10000000

\* GLuint microsPerFrame = (GLuint) ((1.0 / FRAMES_PER_SECOND) * MICROS_PER_SECOND)
MicrosPerFrame == MICROS_PER_SECOND \div FRAMES_PER_SECOND

\* The builds of getMicros: the branch under #ifdef WIN32, and the other.
Platforms == {"win32", "linux"}

\* getMicros at time t (microseconds): on Windows the count of 100 ns
\* intervals divided by 10; elsewhere tv_sec * MICROS_PER_SECOND + tv_usec.
GetMicros(plat, t) ==
  IF plat = "win32"
  THEN (t * 10) \div 10
  ELSE (t \div 1000000) * MICROS_PER_SECOND + (t % 1000000)

\* (a - b) >= n on uint64 values: the difference wraps when a < b, and is
\* then far above every n that occurs.
UnsignedDiffAtLeast(a, b, n) == IF a >= b THEN a - b >= n ELSE TRUE

\* What SDL_PollEvent leaves in the event: nothing new, a press of one of
\* the keys T, R and ESCAPE, or the request to quit.
Events == {"NONE", "T", "R", "ESCAPE", "QUIT"}

\* The microsecond counter when main starts.
StartTimes == {0, 1000000}

\* The real time one turn of the main loop takes, in microseconds: less
\* than the counter resolves, an eighth and a quarter of a second, a second.
Ticks == {0, 125000, 250000, 1000000}

\* The turns of the main loop that are followed.
MaxIterations == 3

\* The descriptions main is run on: an unreadable one, one without bodies,
\* and the Sun with the Planet.
HostDescriptions ==
  { d \in Descriptions :
      /\ d.scale = 1
      /\ \/ d.bodies = <<>>
         \/ /\ Len(d.bodies) = 2
            /\ d.bodies[1].name = "Sun"
            /\ d.bodies[2].name = "Planet" }

HostInit ==
  /\ \E desc \in HostDescriptions : Start(EmptySystem, "main", desc)
  /\ EventsIdle
  /\ RunIdle
  /\ instance = NULL
  /\ singletons = <<>>
  /\ pc = "start"
  /\ event = "NONE"
  /\ micros = 0
  /\ frameStart = 0
  /\ now \in StartTimes
  /\ frames = 0
  /\ platform \in Platforms
  /\ ConfigIdle

\* main up to the loop: the ShaderSingleton is created, the system loaded,
\* its Drawables taken, the first event polled and the counters started.
MainStart ==
  /\ pc = "start"
  /\ instance' = CreateShaderSingleton(instance, singletons).instance
  /\ singletons' = CreateShaderSingleton(instance, singletons).singletons
  /\ \E sys \in { LoadFile(source) } :
       /\ G' = sys.G
       /\ clock' = sys.clock
       /\ scale' = sys.scale
       /\ bodies' = sys.bodies
       /\ celestialSphere' = sys.celestialSphere
       /\ heap' = sys.heap
       /\ released' = [p \in 1..Len(sys.heap) |-> 0]
       /\ added' = Range(sys.bodies)
       /\ drawables' = GetDrawables(sys.bodies, sys.celestialSphere)
  /\ event' \in Events
  /\ micros' = 0
  /\ frameStart' = GetMicros(platform, now)
  /\ pc' = "loop"
  /\ lastOp' = Op("loadFile", NULL, Zero, <<>>, 0)
  /\ UNCHANGED platform
  /\ UNCHANGED <<source, nullUses, nOps, eventVars, now, frames, runVars, cfgVars>>

\* One turn of the main loop, `tick` after the turn before: the event is
\* handled; interpolate is not called (the call is commented out); when a
\* frame is due the window is repainted over the Drawables taken at the
\* start; the counters are read and the next event is polled.
MainLoop(tick) ==
  /\ pc = "loop"
  /\ event # "QUIT"
  /\ nOps < MaxIterations \/ tick = 0
  /\ now' = now + tick
  /\ UNCHANGED platform
  /\ warpFactor' = HandleKeyPress(warpFactor, quit, event).warpFactor
  /\ quit' = HandleKeyPress(warpFactor, quit, event).quit
  /\ nOps' = IF nOps < MaxIterations THEN nOps + 1 ELSE nOps
  /\ IF UnsignedDiffAtLeast(micros, frameStart, MicrosPerFrame)
     THEN \/ /\ heap' = RepaintLoop(heap, drawables, 1)
             /\ nullUses' = nullUses + Count(drawables, NULL)
             /\ frameStart' = GetMicros(platform, now')
             /\ frames' = frames + 1
             /\ micros' = GetMicros(platform, now')
             /\ event' \in Events
             /\ pc' = "loop"
             /\ lastOp' = Op("repaint", NULL, Zero, <<>>, 0)
          \/ /\ Count(drawables, NULL) > 0
             /\ heap' = RepaintLoop(heap, BeforeNull(drawables), 1)
             /\ nullUses' = nullUses + 1
             /\ pc' = "crashed"
             /\ lastOp' = Op("crashed", NULL, Zero, <<>>, 0)
             /\ UNCHANGED <<frameStart, frames, micros, event>>
     ELSE /\ micros' = GetMicros(platform, now')
          /\ event' \in Events
          /\ lastOp' = Op("turn", NULL, Zero, <<>>, 0)
          /\ UNCHANGED <<heap, nullUses, frameStart, frames, pc>>
  /\ UNCHANGED <<G, clock, scale, bodies, celestialSphere, released, added>>
  /\ UNCHANGED <<source, drawables, instance, singletons, runVars, cfgVars>>

\* main after the loop: cleanUp, then destroyShaderSingleton.
MainExit ==
  /\ pc = "loop"
  /\ event = "QUIT"
  /\ released' = [p \in 1..Len(heap) |->
                    released[p] + Count(CleanUpDeletes(bodies, celestialSphere), p)]
  /\ celestialSphere' = NULL
  /\ bodies' = [i \in 1..Len(bodies) |-> NULL]
  /\ instance' = DestroyShaderSingleton(instance, singletons).instance
  /\ singletons' = DestroyShaderSingleton(instance, singletons).singletons
  /\ pc' = "done"
  /\ lastOp' = Op("cleanUp", NULL, Zero, <<>>, 0)
  /\ UNCHANGED <<G, clock, scale, heap, added, nOps>>
  /\ UNCHANGED <<source, drawables, nullUses, eventVars, runVars, cfgVars>>
  /\ UNCHANGED <<event, micros, frameStart, now, frames, platform>>

HostNext ==
  \/ MainStart
  \/ \E tick \in Ticks : MainLoop(tick)
  \/ MainExit

HostSpec == HostInit /\ [][HostNext]_vars

\* main keeps running: a turn of the loop that can be taken is taken.
HostFairSpec == HostSpec /\ WF_vars(HostNext)

\* ------------------------------------------------------------------------
\* Runnable: one instance, its callers and the threads started for it.
\* The hooks initialize, run and terminate belong to the implementing
\* class, of which the repository has none: each does what a hook may do.
\* ------------------------------------------------------------------------

\* The spawnThread calls each caller makes.
MaxCalls == 2

RunInit ==
  /\ Start(EmptySystem, "none", NoDescription)
  /\ EventsIdle
  /\ MainIdle
  /\ RunIdle
  /\ ConfigIdle

\* A caller enters spawnThread: ErrorCode result = ErrorCode::Failure.
SpawnEnter(c) ==
  /\ callers[c].at = "idle"
  /\ callers[c].calls < MaxCalls
  /\ callers' = [callers EXCEPT ![c] = [at |-> "test", result |-> "Failure",
                                        calls |-> @.calls + 1]]
  /\ UNCHANGED <<isInitialized, isRunning, terminateSelf, threads>>
  /\ UNCHANGED <<sysVars, eventVars, mainVars, cfgVars>>

\* if(isRunning): the call returns RunnableAlreadyRunning, or goes on.
SpawnTest(c) ==
  /\ callers[c].at = "test"
  /\ callers' = IF isRunning
                THEN [callers EXCEPT ![c].at = "idle",
                                     ![c].result = "RunnableAlreadyRunning"]
                ELSE [callers EXCEPT ![c].at = "initialize"]
  /\ UNCHANGED <<isInitialized, isRunning, terminateSelf, threads>>
  /\ UNCHANGED <<sysVars, eventVars, mainVars, cfgVars>>

\* result = initialize(): the hook succeeds or fails; on failure the call
\* returns what the hook returned.
SpawnInitialize(c) ==
  /\ callers[c].at = "initialize"
  /\ \E r \in {"Success", "Failure"} :
       /\ isInitialized' = (isInitialized \/ r = "Success")
       /\ callers' = [callers EXCEPT ![c].result = r,
                                     ![c].at = IF r = "Success" THEN "push"
                                               ELSE "idle"]
  /\ UNCHANGED <<isRunning, terminateSelf, threads>>
  /\ UNCHANGED <<sysVars, eventVars, mainVars, cfgVars>>

\* threads.push_back(std::thread(...)): a thread is started, and the call
\* returns Success.
SpawnPush(c) ==
  /\ callers[c].at = "push"
  /\ threads' = Append(threads, "started")
  /\ callers' = [callers EXCEPT ![c].at = "idle"]
  /\ UNCHANGED <<isInitialized, isRunning, terminateSelf>>
  /\ UNCHANGED <<sysVars, eventVars, mainVars, cfgVars>>

\* A started thread enters run(args): the hook sets isRunning, or does not.
ThreadRun(i) ==
  /\ i \in 1..Len(threads)
  /\ threads[i] = "started"
  /\ threads' = [threads EXCEPT ![i] = "running"]
  /\ isRunning' \in {TRUE, isRunning}
  /\ UNCHANGED <<isInitialized, terminateSelf, callers>>
  /\ UNCHANGED <<sysVars, eventVars, mainVars, cfgVars>>

\* terminate(): the instance is told to end its thread.
Terminate ==
  /\ ~terminateSelf
  /\ \E i \in 1..Len(threads) : threads[i] = "running"
  /\ terminateSelf' = TRUE
  /\ UNCHANGED <<isInitialized, isRunning, threads, callers>>
  /\ UNCHANGED <<sysVars, eventVars, mainVars, cfgVars>>

\* run(args) returns in a thread told to terminate: the hook clears
\* isRunning, or does not.
ThreadEnd(i) ==
  /\ i \in 1..Len(threads)
  /\ threads[i] = "running"
  /\ terminateSelf
  /\ threads' = [threads EXCEPT ![i] = "finished"]
  /\ isRunning' \in {FALSE, isRunning}
  /\ UNCHANGED <<isInitialized, terminateSelf, callers>>
  /\ UNCHANGED <<sysVars, eventVars, mainVars, cfgVars>>

RunNext ==
  \/ \E c \in Callers : SpawnEnter(c)
  \/ \E c \in Callers : SpawnTest(c)
  \/ \E c \in Callers : SpawnInitialize(c)
  \/ \E c \in Callers : SpawnPush(c)
  \/ \E i \in 1..(MaxCalls * Cardinality(Callers)) : ThreadRun(i)
  \/ Terminate
  \/ \E i \in 1..(MaxCalls * Cardinality(Callers)) : ThreadEnd(i)

RunnableSpec == RunInit /\ [][RunNext]_vars

\* ------------------------------------------------------------------------
\* Configurable: the constructor parses the config file, runs the scripts
\* it takes for early ones and keeps the others in lateScripts.
\* ------------------------------------------------------------------------

\* The scripts of one config file, at most.
MaxScripts == 3

SCRIPT_EARLY == "early"
SCRIPT_LATE == "late"
SCRIPTS_DIR == "config/scripts/"

\* The text of a <key> element: the two tags, the two tags written with the
\* quotation marks of the format description of the class, and a tag that
\* is neither.
ScriptKeys == {"early", "late", "\"early\"", "\"late\"", "debug"}

\* The text of a <value> element.
ScriptValues == {"check.sh", "connect.sh"}

\* The <script> elements of a <scripts> list, in document order.
ScriptLists ==
  UNION { [1..n -> [key : ScriptKeys, value : ScriptValues]] : n \in 0..MaxScripts }

\* The config files: one that cannot be opened, and the readable ones.
ConfigFiles ==
  {[found |-> FALSE, scripts |-> <<>>]} \cup
  { [found |-> TRUE, scripts |-> s] : s \in ScriptLists }

\* SCRIPTS_DIR + std::string(value->value()), for each element of q.
RECURSIVE ScriptPaths(_)
ScriptPaths(q) ==
  IF q = <<>> THEN <<>>
  ELSE <<SCRIPTS_DIR \o Head(q).value>> \o ScriptPaths(Tail(q))

\* The scan of the scripts list: the elements whose key compares equal to
\* SCRIPT_EARLY go to earlyScripts, all the others to lateScripts; then the
\* early scripts are handed to system() one by one.
ExtractContent(doc) ==
  [earlyScripts |-> ScriptPaths(SelectSeq(doc.scripts, LAMBDA s : s.key = SCRIPT_EARLY)),
   lateScripts  |-> ScriptPaths(SelectSeq(doc.scripts, LAMBDA s : s.key # SCRIPT_EARLY)),
   result       |-> "Success"]

\* The file is opened and parsed, or reported as not found.
ParseConfigFile(doc) ==
  IF doc.found THEN ExtractContent(doc)
  ELSE [earlyScripts |-> <<>>, lateScripts |-> <<>>, result |-> "ConfigFileNotFound"]

ConfigInit ==
  /\ Start(EmptySystem, "none", NoDescription)
  /\ EventsIdle
  /\ MainIdle
  /\ RunIdle
  /\ configFile \in ConfigFiles
  /\ executed = <<>>
  /\ lateScripts = <<>>
  /\ configResult = "None"

\* Configurable::Configurable: parseConfigFile, once.
Construct ==
  /\ configResult = "None"
  /\ executed' = executed \o ParseConfigFile(configFile).earlyScripts
  /\ lateScripts' = lateScripts \o ParseConfigFile(configFile).lateScripts
  /\ configResult' = ParseConfigFile(configFile).result
  /\ UNCHANGED <<configFile, sysVars, eventVars, mainVars, runVars>>

ConfigSpec == ConfigInit /\ [][Construct]_vars

\* ------------------------------------------------------------------------
\* A circular orbit stepped with a fixed step over one Kepler period.
\* ------------------------------------------------------------------------

\* Circular orbits, G = 1: the mass M of the body at the origin, the radius
\* r and the speed v = sqrt(G*M/r) of a satellite of mass 0.
Orbits ==
  { [mass |-> 4, r |-> 4, v |-> 1], [mass |-> 1, r |-> 1, v |-> 1],
    [mass |-> 16, r |-> 4, v |-> 2] }

\* The description of the system of one orbit: the satellite starts on the
\* x axis at (r, 0, 0) and moves along y with the circular speed.
OrbitDescription(o) ==
  [ok |-> TRUE, g |-> 1, scale |-> 1, bgRadius |-> 100, bgTilt |-> 0,
   bodies |-> << [name |-> "Sun", mass |-> o.mass, radius |-> 1,
                  position |-> <<0, 0, 0>>, velocity |-> <<0, 0, 0>>,
                  tilt |-> 0, rotationalSpeed |-> 0],
                 [name |-> "Probe", mass |-> 0, radius |-> 1,
                  position |-> <<o.r, 0, 0>>, velocity |-> <<0, o.v, 0>>,
                  tilt |-> 0, rotationalSpeed |-> 0] >>]

\* The numbers of steps one period is divided into.
StepCounts == {32, 64}

\* The period of the orbit of a description by Kepler's third law,
\* 2 * pi * sqrt(r^3 / (G * M)).
KeplerPeriod(desc) ==
  FMul(TWO_PI,
       FSqrt(FDiv(FromInt(desc.bodies[2].position[1] ^ 3),
                  FromInt(desc.g * desc.bodies[1].mass))))

\* The fixed step that divides the period in n.
FixedStep(desc, n) == FDiv(KeplerPeriod(desc), FromInt(n))

KeplerInit ==
  /\ \E o \in Orbits :
       Start(LoadFile(OrbitDescription(o)), "loadFile", OrbitDescription(o))
  /\ EventsIdle
  /\ MainIdle
  /\ RunIdle
  /\ ConfigIdle

\* One of the n interpolate calls of a period, each with the same step.
KeplerStep(n) ==
  LET realSeconds == FixedStep(source, n)
      dt == SimSeconds(realSeconds)
      subjects == InterpolateSubjects(bodies, celestialSphere)
  IN /\ nOps < n
     /\ nOps = 0 \/ lastOp.dt = realSeconds
     /\ clock' = AdvanceClock(clock, dt)
     /\ heap' = InterpolateLoop(heap, bodies, G, subjects, dt, 1)
     /\ lastOp' = Op("interpolate", NULL, realSeconds, subjects, 0)
     /\ nOps' = nOps + 1
     /\ UNCHANGED <<G, scale, bodies, celestialSphere, released, added>>
     /\ UNCHANGED <<source, drawables, nullUses, eventVars, mainVars, runVars, cfgVars>>

KeplerSpec == KeplerInit /\ [][\E n \in StepCounts : KeplerStep(n)]_vars

\* ------------------------------------------------------------------------
\* Properties.
\* ------------------------------------------------------------------------

\* The step just taken is a call of the operation `name`.
Called(name) == nOps' = nOps + 1 /\ lastOp'.op = name

\* Every ordering of the sequence q.
Orderings(q) ==
  { [i \in 1..Len(q) |-> q[f[i]]] :
      f \in { g \in [1..Len(q) -> 1..Len(q)] :
                \A i, j \in 1..Len(q) : g[i] = g[j] => i = j } }

\* The heap just before the i-th subject of this interpolate call is stepped.
HeapBefore(i, dt) ==
  InterpolateLoop(heap, bodies, G, SubSeq(bodies, 1, i - 1), dt, 1)

\* C1: within one interpolate call the update order does not matter: the
\* position and velocity of every body after the call are the ones the call
\* produces for every other ordering of the body collection.
C1_OrderIndependent ==
  [][Called("interpolate") =>
       \A q \in Orderings(bodies) : \A p \in Range(bodies) :
         LET other == InterpolateLoop(heap, q, G, q, SimSeconds(lastOp'.dt), 1)
         IN /\ heap'[p].linearPosition = other[p].linearPosition
            /\ heap'[p].linearVelocity = other[p].linearVelocity]_vars

\* The classical combination (s1 + 2*s2 + 2*s3 + s4) / 6.
ClassicalCombine(s1, s2, s3, s4) ==
  VDivS(VAdd(VAdd(VAdd(s1, VScale(FromInt(2), s2)), VScale(FromInt(2), s3)), s4),
        FromInt(6))

\* C2: the Runge-Kutta step of each subject sets its position to
\* r + (k1 + 2*k2 + 2*k3 + k4)/6 and its velocity to
\* v + (l1 + 2*l2 + 2*l3 + l4)/6; a body alone in the collection moves by
\* exactly dt * v.
C2_ClassicalWeights ==
  [][Called("interpolate") =>
       \A i \in 1..Len(bodies) :
         LET dt == SimSeconds(lastOp'.dt)
             h  == HeapBefore(i, dt)
             b  == bodies[i]
             st == RKStages(h, bodies, G, b, dt)
         IN /\ heap'[b].linearPosition =
                 VAdd(h[b].linearPosition,
                      ClassicalCombine(st.k[1], st.k[2], st.k[3], st.k[4]))
            /\ heap'[b].linearVelocity =
                 VAdd(h[b].linearVelocity,
                      ClassicalCombine(st.l[1], st.l[2], st.l[3], st.l[4]))
            /\ Len(bodies) = 1 =>
                 heap'[b].linearPosition =
                   VAdd(heap[b].linearPosition, VScale(dt, heap[b].linearVelocity))]_vars

\* C3: interpolate(0) leaves every field of every body and the clock
\* unchanged.
C3_ZeroStepChangesNothing ==
  [][(Called("interpolate") /\ lastOp'.dt = Zero) =>
       (heap' = heap /\ clock' = clock)]_vars

\* The angle x lies in [0, one revolution).
InRevolution(x) == x.k = "fin" /\ ~FLess(x, Zero) /\ LessTwoPiDouble(x)

\* C4: after every interpolate call the angular position of every body of
\* the collection lies in [0, one revolution).
C4_AngleWrapped ==
  lastOp.op = "interpolate" =>
    \A p \in Range(bodies) : InRevolution(heap[p].angularPosition)

\* The bodies of the collection other than the subject, in order.
Others(bs, subject) == SelectSeq(bs, LAMBDA b : b # subject)

\* A vector of magnitude g*mass/|to - from|^2 pointing from `from` to `to`.
NewtonPull(g, mass, from, to) ==
  VScale(FDiv(FMul(g, mass), FMul(VLength(VSub(to, from)), VLength(VSub(to, from)))),
         VDivS(VSub(to, from), VLength(VSub(to, from))))

\* The sum of the pulls of the first n bodies of q on the position p.
RECURSIVE SumOfPulls(_, _, _, _, _)
SumOfPulls(h, g, q, p, n) ==
  IF n = 0 THEN VZero
  ELSE VAdd(SumOfPulls(h, g, q, p, n - 1),
            NewtonPull(g, h[q[n]].mass, p, h[q[n]].linearPosition))

\* The positions at which the gravity on a subject is probed: its stored
\* position and a position away from it.
ProbePositions(subject) == { heap[subject].linearPosition, IVec(1, 2, 2) }

\* C5: gravityVector(subject, p) is the sum over the other bodies of the
\* collection of their Newtonian pulls at p; it depends neither on the
\* subject's mass nor on its stored position; and doubling the mass of one
\* other body doubles that body's contribution.  (Stated of a system that
\* has not been torn down: cleanUp leaves null pointers in the collection.)
C5_GravityIsSumOverOthers ==
  ~TornDown => \A subject \in 1..Len(heap) : \A p \in ProbePositions(subject) :
    /\ GravityVector(heap, bodies, G, subject, p) =
         SumOfPulls(heap, G, Others(bodies, subject), p,
                    Len(Others(bodies, subject)))
    /\ GravityVector(heap, bodies, G, subject, p) =
         GravityVector([heap EXCEPT ![subject].mass = FromInt(5),
                                    ![subject].linearPosition = IVec(7, 7, 7)],
                       bodies, G, subject, p)
    /\ \A b \in Range(bodies) \ {subject} :
         GravityTerm([heap EXCEPT ![b].mass = FMul(FromInt(2), heap[b].mass)],
                     G, b, p)
           = VScale(FromInt(2), GravityTerm(heap, G, b, p))

\* A vector with three finite components, not all zero.
FiniteNonZero(v) == v # VZero /\ \A c \in 1..3 : v[c].k = "fin"

\* C5 witness: an interpolate call has stored a finite non-zero gravity
\* vector, summed over two other bodies, in a body of the collection.
C5_Witness ==
  /\ lastOp.op = "interpolate"
  /\ \E p \in Range(bodies) :
       /\ Len(Others(bodies, p)) = 2
       /\ FiniteNonZero(heap[p].gravityVector)
       /\ \A b \in Range(Others(bodies, p)) : heap[b].mass # Zero

\* C6: an interpolate call steps each body of the collection once, in
\* order, and never the celestial sphere, which stays at rest at the origin
\* with angular position 0 as constructed.
C6_SphereNeverStepped ==
  [][/\ Called("interpolate") =>
          /\ lastOp'.rk = bodies
          /\ \A p \in Range(bodies) : p # celestialSphere
          /\ celestialSphere # NULL => heap'[celestialSphere] = heap[celestialSphere]
     /\ celestialSphere' # NULL =>
          /\ heap'[celestialSphere'].linearPosition = VZero
          /\ heap'[celestialSphere'].linearVelocity = VZero
          /\ heap'[celestialSphere'].angularPosition = Zero]_vars

\* C6 witness: an interpolate call over a non-zero time has stepped two
\* bodies of a system that has a celestial sphere.
C6_Witness ==
  /\ lastOp.op = "interpolate"
  /\ lastOp.dt # Zero
  /\ celestialSphere # NULL
  /\ Len(lastOp.rk) = 2
  /\ \E p \in Range(bodies) : FiniteNonZero(heap[p].gravityVector)

\* C7: the clock never decreases, only interpolate changes it, and each
\* interpolate call adds realSeconds * SIM_SECONDS_PER_REAL_SECOND to it.
C7_ClockMonotonic ==
  [][/\ ~FLess(clock', clock)
     /\ IF Called("interpolate")
        THEN clock' = FAdd(clock, FMul(lastOp'.dt, SIM_SECONDS_PER_REAL_SECOND))
        ELSE clock' = clock]_vars

\* C7 witness: an interpolate call over a non-zero time on a clock that had
\* already been advanced.
C7_Witness ==
  /\ lastOp.op = "interpolate"
  /\ lastOp.dt # Zero
  /\ FLess(FMul(lastOp.dt, SIM_SECONDS_PER_REAL_SECOND), clock)

\* C8: when cleanUp has returned, every body ever added to the system has
\* been released exactly once, and so has the celestial sphere.
C8_ReleasedExactlyOnce ==
  TornDown =>
    /\ \A p \in added : released[p] = 1
    /\ \A p \in 1..Len(heap) :
         heap[p].name = "Celestial Sphere" => released[p] = 1

\* C9: no system returned by loadFile holds two distinct bodies at the same
\* position.
C9_NoCoincidentBodiesLoaded ==
  lastOp.op = "loadFile" =>
    \A i, j \in 1..Len(bodies) :
      i # j => heap[bodies[i]].linearPosition # heap[bodies[j]].linearPosition

\* C10: increment on a body of mass 0 changes no field of the body and
\* performs no division by the mass.
C10_MasslessIncrementIsNoOp ==
  [][(Called("increment") /\ heap[lastOp'.p].mass = Zero) =>
       (heap' = heap /\ lastOp'.divs = 0)]_vars

\* C10 witness: increment over a non-zero time has been called on a body of
\* mass 0 that carries a thrust.
C10_Witness ==
  /\ lastOp.op = "increment"
  /\ lastOp.dt # Zero
  /\ heap[lastOp.p].mass = Zero
  /\ heap[lastOp.p].linearThrust # VZero

\* C11: a body of mass zero contributes the zero vector to the gravity on
\* every other body of the collection, wherever that body is, so that its
\* presence never changes what gravityVector returns for another body.
\* (Stated of a system that has not been torn down.)
C11_MasslessContributesZero ==
  ~TornDown =>
    \A subject \in Range(bodies) : \A b \in Range(bodies) \ {subject} :
      heap[b].mass = Zero =>
        /\ GravityTerm(heap, G, b, heap[subject].linearPosition) = VZero
        /\ GravityVector(heap, bodies, G, subject, heap[subject].linearPosition) =
             GravityVector(heap, Others(bodies, b), G, subject,
                           heap[subject].linearPosition)

\* The system is as loadFile returned it from a readable description.
JustLoaded == lastOp.op = "loadFile" /\ source.ok

C13_WarpClamped ==
  /\ ~FLess(warpFactor, MIN_WARP)
  /\ ~FLess(MAX_WARP, warpFactor)

\* The heap h with every thrust of every body set to zero.
WithoutThrust(h) ==
  [q \in 1..Len(h) |-> [h[q] EXCEPT !.linearThrust = VZero, !.angularThrust = Zero]]

C15_StepReadsStoredPositions ==
  [][Called("interpolate") =>
       \A i \in 1..Len(bodies) :
         \A h \in { HeapBefore(i, SimSeconds(lastOp'.dt)) } :
         \A h2 \in { HeapBefore(i + 1, SimSeconds(lastOp'.dt)) } :
           LET dt   == SimSeconds(lastOp'.dt)
               b    == bodies[i]
               oth  == Others(bodies, b)
               half == FromRat(1, 2)
               r    == h[b].linearPosition
               v    == h[b].linearVelocity
               Acc(at) == SumOfPulls(h, G, oth, at, Len(oth))
               k0 == VScale(dt, v)
               l0 == VScale(dt, Acc(r))
               k1 == VScale(dt, VAdd(v, VScale(half, l0)))
               l1 == VScale(dt, Acc(VAdd(r, VScale(half, k0))))
               k2 == VScale(dt, VAdd(v, VScale(half, l1)))
               l2 == VScale(dt, Acc(VAdd(r, VScale(half, k1))))
               k3 == VScale(dt, VAdd(v, l2))
               l3 == VScale(dt, Acc(VAdd(r, k2)))
           IN /\ \A q \in 1..Len(heap) : q # b => h2[q] = h[q]
              /\ h2[b].linearPosition = VAdd(r, RKCombine(k0, k1, k2, k3))
              /\ h2[b].linearVelocity = VAdd(v, RKCombine(l0, l1, l2, l3))]_vars

\* C15 witness: an interpolate call over a non-zero time has stepped two
\* distinct bodies, each left with a finite non-zero pull from the other.
C15_Witness ==
  /\ lastOp.op = "interpolate"
  /\ lastOp.dt # Zero
  /\ Len(bodies) = 2
  /\ bodies[1] # bodies[2]
  /\ \A p \in Range(bodies) :
       /\ FiniteNonZero(heap[p].gravityVector)
       /\ heap[p].linearVelocity # VZero

\* loadFile could not read the description.
LoadFailed == source \in Descriptions /\ ~source.ok

\* C16: when the description cannot be loaded, loadFile returns a system
\* with no bodies and clock 0, and interpolate, getDrawables followed by the
\* drawing of every returned entry, and cleanUp complete without the use of
\* a null object.
C16_MissingDescriptionIsSafe ==
  LoadFailed =>
    /\ lastOp.op = "loadFile" => (bodies = <<>> /\ clock = Zero)
    /\ nullUses = 0
    /\ ~Crashed

\* The physical state of a body: every field but the cached transform.
Physical(b) == [b EXCEPT !.modelToWorld = IdentityMat4]

\* C18: rendering never changes the physical state of a body: a repaint
\* leaves every field of every body but the cached modelToWorld as it was,
\* and leaves the system's own fields alone.
C18_DrawChangesOnlyTransform ==
  [][(Called("repaint") \/ Called("crashed")) =>
       /\ Len(heap') = Len(heap)
       /\ \A q \in 1..Len(heap) : Physical(heap'[q]) = Physical(heap[q])
       /\ UNCHANGED <<G, clock, scale, bodies, celestialSphere>>]_vars

\* C18 witness: a repaint has drawn the sphere and a body that is away
\* from the origin, tilted and spinning, and has stored its transform.
C18_Witness ==
  /\ lastOp.op = "repaint"
  /\ celestialSphere # NULL
  /\ \E p \in Range(bodies) :
       /\ heap[p].modelToWorld # IdentityMat4
       /\ heap[p].modelToWorld.translate # VZero
       /\ heap[p].modelToWorld.tilted
       /\ heap[p].angularVelocity # Zero

\* C17: the main loop calls interpolate once per frame with the elapsed
\* real time, before the repaint of that frame: the clock of the system
\* advances on every frame in which real time has elapsed.
C17_ClockAdvancesEveryFrame ==
  [][(pc = "loop" /\ frames' = frames + 1 /\ GetMicros(platform, now') > micros) =>
       FLess(clock, clock')]_vars

\* C19: a Runnable can only be running once: whatever the sequence or
\* interleaving of spawnThread calls on the instance, at most one thread is
\* ever started for it.
C19_AtMostOneThread == Len(threads) <= 1

\* The ShaderSingleton objects that are constructed and not destroyed.
LiveSingletons == { i \in 1..Len(singletons) : singletons[i] = 0 }

\* C20: the static instance pointer is non-NULL exactly when a live
\* ShaderSingleton exists, it points to that one, and there is never more
\* than one.
C20_InstanceIffLive ==
  /\ instance # NULL <=> LiveSingletons # {}
  /\ instance # NULL => instance \in LiveSingletons
  /\ Cardinality(LiveSingletons) <= 1

\* The properties of a body that simulation is to leave alone.
Static(b) ==
  [name |-> b.name, mass |-> b.mass, radius |-> b.radius, scale |-> b.scale,
   rotationalAxis |-> b.rotationalAxis, rotationalAngle |-> b.rotationalAngle]

\* C21: no interpolate and no increment call changes the name, mass,
\* radius, display scale, rotation axis or tilt angle of a body; of all
\* operations only setRotationalAxis changes the tilt, and none changes the
\* other static properties.
C21_StaticUnchangedBySimulation ==
  [][\A q \in 1..Len(heap) :
       /\ ~Called("setRotationalAxis") => Static(heap'[q]) = Static(heap[q])
       /\ Called("setRotationalAxis") =>
            /\ [Static(heap'[q]) EXCEPT !.rotationalAxis = 0, !.rotationalAngle = 0]
                 = [Static(heap[q]) EXCEPT !.rotationalAxis = 0, !.rotationalAngle = 0]
            /\ q # lastOp'.p => Static(heap'[q]) = Static(heap[q])]_vars

\* C21 witness: the second of two simulation calls, an interpolate over a
\* non-zero time, has turned and moved a tilted body of non-zero mass.
C21_Witness ==
  /\ lastOp.op = "interpolate"
  /\ lastOp.dt # Zero
  /\ nOps = 2
  /\ \E p \in Range(bodies) :
       /\ heap[p].rotationalAngle # Zero
       /\ heap[p].angularPosition # Zero
       /\ heap[p].mass # Zero
       /\ FiniteNonZero(heap[p].gravityVector)

\* One Kepler period has just been completed in n equal steps.
PeriodCompleted(n) ==
  /\ lastOp.op = "interpolate"
  /\ nOps = n
  /\ lastOp.dt = FixedStep(source, n)

\* The distance of the satellite from the position it started at.
DistanceFromStart ==
  VLength(VSub(heap[bodies[2]].linearPosition,
               IVec(source.bodies[2].position[1], 0, 0)))

\* C22: on a circular orbit entered with v = sqrt(G*M/r), after one Kepler
\* period of interpolate calls with a small fixed step the satellite is
\* within 1% of r of the position it started at.
C22_OrbitCloses ==
  \A n \in StepCounts :
    PeriodCompleted(n) =>
      ~FLess(FromRat(source.bodies[2].position[1], 100), DistanceFromStart)

\* C23: after an interpolate call the cached gravity vector of every body
\* of the collection is gravityVector(body, its position) over the
\* positions all bodies have when the call returns.
C23_CachedGravityIsCurrent ==
  lastOp.op = "interpolate" =>
    \A p \in Range(bodies) :
      heap[p].gravityVector =
        GravityVector(heap, bodies, G, p, heap[p].linearPosition)

\* C24: the modelToWorld transform getModelToWorld returns for a body is
\* the one of its current scale, tilt, angular position and linear
\* position.
C24_TransformIsCurrent ==
  \A q \in 1..Len(heap) :
    heap[q].modelToWorld = UpdateModelToWorld(heap[q]).modelToWorld

\* C25: after increment(dt) on a body of non-zero mass its angular
\* position lies in [0, one revolution), the revolution being the one of
\* setAngularPosition.
C25_IncrementWrapsAngle ==
  (lastOp.op = "increment" /\ heap[lastOp.p].mass # Zero) =>
    InRevolution(heap[lastOp.p].angularPosition)

InvalidIndexCall ==
  /\ nOps' = nOps + 1
  /\ lastOp'.op \in {"getBody", "removeBody", "out_of_range"}
  /\ lastOp'.p >= Len(bodies)

\* C27: getBody(i) and removeBody(i) with i >= the number of bodies report
\* an error and leave the collection as it was.
C27_InvalidIndexReported ==
  [][InvalidIndexCall => (lastOp'.op = "out_of_range" /\ bodies' = bodies)]_vars

\* The scripts of the file that carry the tag, written bare or with the
\* quotation marks of the format description, as the paths they are run by.
Tagged(tag) ==
  ScriptPaths(SelectSeq(configFile.scripts,
                        LAMBDA s : s.key \in {tag, "\"" \o tag \o "\""}))

\* C28: the construction of a Configurable on a readable file has executed
\* the scripts tagged "early", each once and in document order, and no
\* other; lateScripts holds the scripts tagged "late", and only those, in
\* document order; so each script of the file is in exactly one group.
C28_EarlyRunLateStored ==
  configResult = "Success" =>
    /\ executed = Tagged(SCRIPT_EARLY)
    /\ lateScripts = Tagged(SCRIPT_LATE)
    /\ Len(executed) + Len(lateScripts) = Len(configFile.scripts)

\* C29: once handleKeyPress has handled a press of Escape the quit flag is
\* true and stays true, and main then leaves its loop and runs the
\* teardown (cleanUp, destroyShaderSingleton).  (A run that dies in a
\* repaint is left aside.)
C29_EscapeQuits ==
  /\ [][(event = "ESCAPE" /\ pc = "loop" /\ pc' = "loop") => quit']_vars
  /\ [][quit => quit']_vars
  /\ quit ~> (pc = "done" \/ pc = "crashed")

\* C30: two readings of getMicros taken exactly one second apart differ by
\* 1,000,000.
C30_OneSecondIsAMillion ==
  [][(/\ pc = "loop"
      /\ pc' = "loop"
      /\ micros = GetMicros(platform, now)
      /\ now' = now + 1000000
      /\ micros' = GetMicros(platform, now')) =>
       micros' - micros = 1000000]_vars

====
